---- MODULE Spec2Model ----
(***************************************************************************)
(* run_test(): the scripted browser flow that every script under           *)
(* src/testsprite_tests re-implements.  One coroutine, one suspension      *)
(* point per await; the backend (Playwright driver) answers each call with *)
(* success or with an error.                                               *)
(***************************************************************************)
EXTENDS Integers, Sequences, FiniteSets, TLC

(* ---- bounds of the model ---- *)
MaxSteps == 2
MaxAsserts == 2
MaxFrames == 1
MaxPages == 2
MaxSettleFrames == 2

(* ---- program constants ---- *)
DefaultTimeoutMs == 5000

(* the script has set no default timeout on the context *)
NoTimeout == 0

None == "None"

(* step kinds found in the scripts: elem.click, elem.fill, page.goto,      *)
(* page.mouse.wheel                                                        *)
StepKinds == {"click", "fill", "goto", "scroll"}

LocatorKinds == {"click", "fill"}

(* the two shapes of the assertion batch: expect(...) called directly, or  *)
(* one expect(...) wrapped in try/except AssertionError                    *)
AssertStyles == {"direct", "wrapped"}

Scenarios == UNION {[1..n -> StepKinds] : n \in 1..MaxSteps}

VARIABLES
    pc,             \* position of the coroutine in run_test
    pw,             \* local pw      (None or the driver session)
    browser,        \* local browser (None or the browser process)
    context,        \* local context (None or the browsing context)
    page,           \* local page    (None until context.new_page() returned)
    pages,          \* context.pages: the open pages, oldest first
    frame,          \* local frame   (the page the locators are built on)
    elem,           \* local elem    (the locator the next action is made on)
    defaultTimeout, \* the context's default action timeout (NoTimeout or ms)
    steps,          \* the declared steps of the scenario (sequence of kinds)
    style,          \* shape of the assertion batch (None until it is reached)
    nAsserts,       \* number of declared assertions (0 until it is reached)
    i,              \* index of the step / assertion / frame being executed
    nFrames,        \* size of the page.frames snapshot of the settle loop
    log,            \* calls issued to the backend, with their outcome
    exc,            \* the exception propagating out of the try body / finally
    verdict,        \* outcome of asyncio.run(run_test())
    out,            \* records the script has written (print, logging)
    attached        \* the frames of the page that are attached right now

vars == <<pc, pw, browser, context, page, pages, frame, elem, defaultTimeout,
          steps, style, nAsserts, i, nFrames, log, exc, verdict, out,
          attached>>

NoExc == [type |-> "none", op |-> "none", i |-> 0, msg |-> "none"]

(* identities of the pages of the context, in order of opening; the first *)
(* one is the page returned by context.new_page()                          *)
PageIds == <<"page", "page2", "page3", "page4">>

(* context.pages[-1] *)
Top == IF pages = <<>> THEN None ELSE pages[Len(pages)]

(* page object p is open: context.pages holds the open pages only *)
Live(p) == \E k \in 1..Len(pages) : pages[k] = p

(* position of page p in the order of opening *)
Idx(p) == CHOOSE k \in 1..Len(PageIds) : PageIds[k] = p

(* sequence s without page p *)
Without(s, p) == SelectSeq(s, LAMBDA q : q # p)

(* calls made on the local `page`: page.goto, page.wait_for_load_state     *)
(* (and the same on its frames), page.wait_for_timeout, page.mouse.wheel   *)
PageOps == {"goto", "wait_for_load_state", "wait_for_timeout", "scroll"}

(* calls made on a locator built on the local `frame` *)
FrameOps == {"click", "fill", "expect"}

(* the page object call op is addressed to *)
Target(op) ==
    IF op \in PageOps THEN page
    ELSE IF op \in FrameOps THEN frame
    ELSE None

(* the answers the backend can give to call op: a call addressed to a page *)
(* that is closed raises (TargetClosedError, an async_api.Error)           *)
Answers(op) == IF Live(Target(op)) THEN BOOLEAN ELSE {FALSE}

(* variant: every navigation is given wait_until="commit" *)
WaitUntilAlwaysCommit(op, idx) == IF op = "goto" THEN "commit" ELSE "none"

(* the milestone a navigation waits for: the initial page.goto is given    *)
(* wait_until="commit"; a mid-scenario page.goto (step idx >= 1) is given  *)
(* no wait_until and waits for the driver's default, the load event        *)
WaitUntil(op, idx) ==
    IF op # "goto" THEN "none"
    ELSE IF idx = 0 THEN "commit"
    ELSE "load"

(* a locator object: the step whose statement built it (`by`), the page it *)
(* was built on (`on`) and whether an element of that page matched it when *)
(* it was built (`hit`); no locator before the first locator step          *)
NoElem == [by |-> 0, on |-> None, hit |-> FALSE]

(* the locator call op is made on: elem.click / elem.fill use the local    *)
(* `elem`; expect(frame.locator(...)) builds its locator in place          *)
Locator(op, idx) ==
    IF op \in LocatorKinds THEN elem
    ELSE IF op = "expect" THEN [by |-> idx, on |-> frame, hit |-> TRUE]
    ELSE NoElem

(* one entry of the call log: the call, its outcome, the page it is        *)
(* addressed to, context.pages[-1] at the moment it is issued, the         *)
(* milestone it waits for and the locator it is made on                    *)
Call(op, idx, res) ==
    [op |-> op, i |-> idx, res |-> res, tgt |-> Target(op), top |-> Top,
     until |-> WaitUntil(op, idx), loc |-> Locator(op, idx)]

(* an error raised by backend call op (index idx) *)
Raised(type, op, idx) == [type |-> type, op |-> op, i |-> idx, msg |-> op]

Init ==
    /\ pc = "start"
    /\ pw = None
    /\ browser = None
    /\ context = None
    /\ page = None
    /\ pages = <<>>
    /\ frame = None
    /\ elem = NoElem
    /\ defaultTimeout = NoTimeout
    /\ steps \in Scenarios
    /\ style = None
    /\ nAsserts = 0
    /\ i = 0
    /\ nFrames = 0
    /\ log = <<>>
    /\ exc = NoExc
    /\ verdict = "running"
    /\ out = << >>
    /\ attached = {}

(* variant: an exception in the try body leaves run_test without running   *)
(* the finally block                                                       *)
RaiseSkipsFinally == "exit"

(* variant: an exception in the try body is swallowed and the run resumes  *)
(* at the assertion batch                                                  *)
RaiseResumesBody == "assert_frame"

(* an exception raised inside the try body transfers control to finally *)
RaiseInTryTarget == "finally"

(* variant: a failed context.new_page() is swallowed and the body goes on  *)
RaiseSwallowsNewPage(e) ==
    /\ exc' = e
    /\ pc' = IF e.op = "new_page" THEN "goto" ELSE "finally"

RaiseInTry(e) ==
    /\ exc' = e
    /\ pc' = RaiseInTryTarget

(* ---------------------------- acquisition ------------------------------ *)

(* variant: the page is opened before the default timeout is set *)
AcquireOrderPageFirst ==
    <<"start", "launch", "new_context", "new_page", "set_default_timeout",
      "goto">>

(* the order of the acquisition statements of the try body (lines 12-30),  *)
(* followed by the initial navigation                                      *)
AcquireOrder ==
    <<"start", "launch", "new_context", "set_default_timeout", "new_page",
      "goto">>

(* the statement that follows acquisition statement p *)
AfterAcquire(p) ==
    LET k == CHOOSE n \in 1..Len(AcquireOrder) : AcquireOrder[n] = p
    IN  AcquireOrder[k + 1]

(* pw = await async_api.async_playwright().start() *)
StartDriver ==
    /\ pc = "start"
    /\ \E ok \in BOOLEAN :
        IF ok
        THEN /\ log' = Append(log, Call("pw.start", 0, "ok"))
             /\ pw' = "pw"
             /\ pc' = AfterAcquire("start")
             /\ exc' = exc
        ELSE /\ log' = Append(log, Call("pw.start", 0, "err"))
             /\ pw' = pw
             /\ RaiseInTry(Raised("Error", "pw.start", 0))
    /\ UNCHANGED <<browser, context, page, pages, frame, elem,
                   defaultTimeout, steps, style, nAsserts, i, nFrames,
                   verdict, out, attached>>

(* browser = await pw.chromium.launch(headless=True, args=[...]) *)
LaunchBrowser ==
    /\ pc = "launch"
    /\ \E ok \in BOOLEAN :
        IF ok
        THEN /\ log' = Append(log, Call("launch", 0, "ok"))
             /\ browser' = "browser"
             /\ pc' = AfterAcquire("launch")
             /\ exc' = exc
        ELSE /\ log' = Append(log, Call("launch", 0, "err"))
             /\ browser' = browser
             /\ RaiseInTry(Raised("Error", "launch", 0))
    /\ UNCHANGED <<pw, context, page, pages, frame, elem, defaultTimeout,
                   steps, style, nAsserts, i, nFrames, verdict, out,
                   attached>>

(* variant: a second context is created once the first one exists *)
NewContextAgain ==
    /\ pc = "new_context"
    /\ log' = Append(log, Call("new_context", 0, "ok"))
    /\ context' = "context"
    /\ pc' = IF context = None THEN "new_context"
             ELSE AfterAcquire("new_context")
    /\ UNCHANGED <<pw, browser, page, pages, frame, elem, defaultTimeout,
                   steps, style, nAsserts, i, nFrames, exc, verdict, out,
                   attached>>

(* context = await browser.new_context() *)
NewContext ==
    /\ pc = "new_context"
    /\ \E ok \in BOOLEAN :
        IF ok
        THEN /\ log' = Append(log, Call("new_context", 0, "ok"))
             /\ context' = "context"
             /\ pc' = AfterAcquire("new_context")
             /\ exc' = exc
        ELSE /\ log' = Append(log, Call("new_context", 0, "err"))
             /\ context' = context
             /\ RaiseInTry(Raised("Error", "new_context", 0))
    /\ UNCHANGED <<pw, browser, page, pages, frame, elem, defaultTimeout,
                   steps, style, nAsserts, i, nFrames, verdict, out,
                   attached>>

(* context.set_default_timeout(5000) *)
SetDefaultTimeout ==
    /\ pc = "set_default_timeout"
    /\ \E ok \in BOOLEAN :
        IF ok
        THEN /\ log' = Append(log, Call("set_default_timeout", 0, "ok"))
             /\ defaultTimeout' = DefaultTimeoutMs
             /\ pc' = AfterAcquire("set_default_timeout")
             /\ exc' = exc
        ELSE /\ log' = Append(log, Call("set_default_timeout", 0, "err"))
             /\ defaultTimeout' = defaultTimeout
             /\ RaiseInTry(Raised("Error", "set_default_timeout", 0))
    /\ UNCHANGED <<pw, browser, context, page, pages, frame, elem, steps,
                   style, nAsserts, i, nFrames, verdict, out, attached>>

(* page = await context.new_page() *)
NewPage ==
    /\ pc = "new_page"
    /\ \E ok \in BOOLEAN :
        IF ok
        THEN /\ log' = Append(log, Call("new_page", 0, "ok"))
             /\ page' = PageIds[1]
             /\ pages' = <<PageIds[1]>>
             /\ pc' = AfterAcquire("new_page")
             /\ exc' = exc
        ELSE /\ log' = Append(log, Call("new_page", 0, "err"))
             /\ page' = page
             /\ pages' = pages
             /\ RaiseInTry(Raised("Error", "new_page", 0))
    /\ UNCHANGED <<pw, browser, context, frame, elem, defaultTimeout,
                   steps, style, nAsserts, i, nFrames, verdict, out,
                   attached>>

(* ------------------- initial navigation and settle wait ---------------- *)

(* await page.goto(url, wait_until="commit", timeout=10000) *)
InitialGoto ==
    /\ pc = "goto"
    /\ \E ok \in BOOLEAN :
        IF ok
        THEN /\ log' = Append(log, Call("goto", 0, "ok"))
             /\ pc' = "settle_page"
             /\ exc' = exc
        ELSE /\ log' = Append(log, Call("goto", 0, "err"))
             /\ RaiseInTry(Raised("Error", "goto", 0))
    /\ UNCHANGED <<pw, browser, context, page, pages, frame, elem,
                   defaultTimeout, steps, style, nAsserts, i, nFrames,
                   verdict, out, attached>>

(* try: await page.wait_for_load_state("domcontentloaded", timeout=3000)   *)
(* except async_api.Error: pass                                            *)
(* then `for frame in page.frames` reads the attached frames               *)
(* maxFrames: the largest page.frames the page may have                     *)
SettlePageOf(maxFrames) ==
    /\ pc = "settle_page"
    /\ \E res \in {"ok", "err"} :
        log' = Append(log, Call("wait_for_load_state", 0, res))
    /\ \E n \in 1..maxFrames : nFrames' = n
    /\ attached' = 1..nFrames'
    /\ i' = 1
    /\ pc' = "settle_frames"
    /\ UNCHANGED <<pw, browser, context, page, pages, frame, elem,
                   defaultTimeout, steps, style, nAsserts, exc, verdict,
                   out>>

SettlePage == SettlePageOf(MaxFrames)

(* variant: the except clause is missing and a failed frame wait          *)
(* propagates                                                              *)
SettleFrameRaises ==
    /\ pc = "settle_frames"
    /\ i <= nFrames
    /\ \E res \in {"ok", "err"} :
        /\ log' = Append(log, Call("wait_for_load_state", i, res))
        /\ IF res = "ok"
           THEN pc' = pc /\ exc' = exc
           ELSE RaiseInTry(Raised("Error", "wait_for_load_state", i))
    /\ i' = i + 1
    /\ UNCHANGED <<pw, browser, context, page, pages, frame, elem,
                   defaultTimeout, steps, style, nAsserts, nFrames,
                   verdict, out, attached>>

(* variant: one try encloses the whole loop, a failed frame wait ends it *)
SettleFrameBreaks ==
    /\ pc = "settle_frames"
    /\ i <= nFrames
    /\ \E res \in {"ok", "err"} :
        /\ log' = Append(log, Call("wait_for_load_state", i, res))
        /\ i' = IF res = "ok" THEN i + 1 ELSE nFrames + 1
    /\ UNCHANGED <<pc, pw, browser, context, page, pages, frame, elem,
                   defaultTimeout, steps, style, nAsserts, nFrames, exc,
                   verdict, out, attached>>

(* the frames of the page after an await: while the coroutine is          *)
(* suspended the page may attach a frame (numbered after those of the      *)
(* list read by the loop) or detach one; frame 1 is the main frame, which  *)
(* stays                                                                   *)
FramesAfter(mayChange) ==
    IF mayChange
    THEN {attached, attached \cup {nFrames + 1}}
            \cup {attached \ {j} : j \in attached \ {1}}
    ELSE {attached}

(* the outcomes of the wait on frame k: a wait on a detached frame raises  *)
FrameOutcomes(k) == IF k \in attached THEN {"ok", "err"} ELSE {"err"}

(* variant: the loop follows the live frame set and passes over a frame    *)
(* that is detached                                                        *)
SettleFrameLive(mayChange) ==
    /\ pc = "settle_frames"
    /\ i <= nFrames
    /\ IF i \in attached
       THEN \E res \in FrameOutcomes(i) :
              log' = Append(log, Call("wait_for_load_state", i, res))
       ELSE log' = log
    /\ attached' \in FramesAfter(mayChange)
    /\ i' = i + 1
    /\ UNCHANGED <<pc, pw, browser, context, page, pages, frame, elem,
                   defaultTimeout, steps, style, nAsserts, nFrames, exc,
                   verdict, out>>

(* one iteration of the loop over page.frames:                             *)
(* try: await frame.wait_for_load_state(...) except async_api.Error: pass  *)
(* mayChange: the page may attach or detach a frame during the wait        *)
SettleFrameOf(mayChange) ==
    /\ pc = "settle_frames"
    /\ i <= nFrames
    /\ \E res \in FrameOutcomes(i) :
        log' = Append(log, Call("wait_for_load_state", i, res))
    /\ attached' \in FramesAfter(mayChange)
    /\ i' = i + 1
    /\ UNCHANGED <<pc, pw, browser, context, page, pages, frame, elem,
                   defaultTimeout, steps, style, nAsserts, nFrames, exc,
                   verdict, out>>

(* the frame set of the page is stable during the settle wait *)
SettleFrame == SettleFrameOf(FALSE)

(* the loop over page.frames is exhausted: the first step follows *)
SettleDone ==
    /\ pc = "settle_frames"
    /\ i > nFrames
    /\ i' = 1
    /\ pc' = "step"
    /\ UNCHANGED <<pw, browser, context, page, pages, frame, elem,
                   defaultTimeout, steps, style, nAsserts, nFrames, log,
                   exc, verdict, out, attached>>

(* -------------------------------- steps -------------------------------- *)

(* variant: the body loops on the same step (a retry loop) *)
NextStepRetry(k) == k

(* the step that follows step k in the straight-line body *)
NextStep(k) == k + 1

(* control after the statements of step i completed *)
Advance ==
    /\ i' = NextStep(i)
    /\ pc' = IF NextStep(i) > Len(steps) THEN "assert_frame" ELSE "step"

(* the outcome of the call in flight, written into its log entry *)
Returned(res) == [log EXCEPT ![Len(log)].res = res]

(* variant: the locator is built on the page bound at acquisition *)
StepResolveFirstPage ==
    /\ pc = "step"
    /\ steps[i] \in LocatorKinds
    /\ frame' = page
    /\ elem' = [by |-> i, on |-> page, hit |-> TRUE]
    /\ pc' = "step_delay"
    /\ UNCHANGED <<pw, browser, context, page, pages, defaultTimeout,
                   steps, style, nAsserts, i, nFrames, log, exc, verdict,
                   out, attached>>

(* variant: the locator built by the first locator step is kept and used   *)
(* by the later steps                                                      *)
StepResolveMemoized ==
    /\ pc = "step"
    /\ steps[i] \in LocatorKinds
    /\ frame' = Top
    /\ elem' = IF elem = NoElem
               THEN [by |-> i, on |-> Top, hit |-> TRUE]
               ELSE elem
    /\ pc' = "step_delay"
    /\ UNCHANGED <<pw, browser, context, page, pages, defaultTimeout,
                   steps, style, nAsserts, i, nFrames, log, exc, verdict,
                   out, attached>>

(* variant: the locator is resolved eagerly and raises when nothing        *)
(* matches it                                                              *)
StepResolveEager(hits) ==
    /\ pc = "step"
    /\ steps[i] \in LocatorKinds
    /\ frame' = Top
    /\ \E h \in hits :
        /\ elem' = [by |-> i, on |-> Top, hit |-> h]
        /\ IF h THEN pc' = "step_delay" /\ exc' = exc
           ELSE RaiseInTry(Raised("Error", "locator", i))
    /\ UNCHANGED <<pw, browser, context, page, pages, defaultTimeout,
                   steps, style, nAsserts, i, nFrames, log, verdict, out,
                   attached>>

(* variant: every locator step rebinds `page` to the newest page *)
StepResolveRebinds(hits) ==
    /\ pc = "step"
    /\ steps[i] \in LocatorKinds
    /\ frame' = Top
    /\ page' = Top
    /\ \E h \in hits : elem' = [by |-> i, on |-> Top, hit |-> h]
    /\ pc' = "step_delay"
    /\ UNCHANGED <<pw, browser, context, pages, defaultTimeout, steps,
                   style, nAsserts, i, nFrames, log, exc, verdict, out,
                   attached>>

(* frame = context.pages[-1]; elem = frame.locator(...).nth(0)             *)
(* building a locator issues no call to the backend and does not look at   *)
(* the page; hits: whether an element matches the locator at that moment   *)
StepResolveOf(hits) ==
    /\ pc = "step"
    /\ steps[i] \in LocatorKinds
    /\ frame' = Top
    /\ \E h \in hits : elem' = [by |-> i, on |-> Top, hit |-> h]
    /\ pc' = "step_delay"
    /\ UNCHANGED <<pw, browser, context, page, pages, defaultTimeout,
                   steps, style, nAsserts, i, nFrames, log, exc, verdict,
                   out, attached>>

StepResolve == StepResolveOf({TRUE})

(* variant: a failed settle delay is swallowed and the action is issued *)
StepDelayTolerant ==
    /\ pc = "step_delay"
    /\ \E res \in {"ok", "err"} :
        log' = Append(log, Call("wait_for_timeout", i, res))
    /\ pc' = "step_act"
    /\ UNCHANGED <<pw, browser, context, page, pages, frame, elem,
                   defaultTimeout, steps, style, nAsserts, i, nFrames, exc,
                   verdict, out, attached>>

(* what the application may add to context.pages while the coroutine is   *)
(* suspended on an await: a tab or popup opened by a timer or by a late     *)
(* reaction to an earlier action                                           *)
OpensMeanwhile(mayOpen) ==
    IF mayOpen /\ Idx(Top) < MaxPages
    THEN {<<>>, <<PageIds[Idx(Top) + 1]>>}
    ELSE {<<>>}

(* variant: the locator is rebuilt on context.pages[-1] after the delay *)
StepDelayRebinds(mayOpen) ==
    /\ pc = "step_delay"
    /\ \E opened \in OpensMeanwhile(mayOpen) : pages' = pages \o opened
    /\ frame' = pages'[Len(pages')]
    /\ elem' = [elem EXCEPT !.on = frame']
    /\ \E ok \in Answers("wait_for_timeout") :
        IF ok
        THEN /\ log' = Append(log, Call("wait_for_timeout", i, "ok"))
             /\ pc' = "step_act"
             /\ exc' = exc
        ELSE /\ log' = Append(log, Call("wait_for_timeout", i, "err"))
             /\ RaiseInTry(Raised("Error", "wait_for_timeout", i))
    /\ UNCHANGED <<pw, browser, context, page, defaultTimeout, steps,
                   style, nAsserts, i, nFrames, verdict, out, attached>>

(* await page.wait_for_timeout(3000)                                       *)
(* mayOpen: the application may open a page during the 3000 ms             *)
StepDelayOf(mayOpen) ==
    /\ pc = "step_delay"
    /\ \E opened \in OpensMeanwhile(mayOpen) : pages' = pages \o opened
    /\ \E ok \in Answers("wait_for_timeout") :
        IF ok
        THEN /\ log' = Append(log, Call("wait_for_timeout", i, "ok"))
             /\ pc' = "step_act"
             /\ exc' = exc
        ELSE /\ log' = Append(log, Call("wait_for_timeout", i, "err"))
             /\ RaiseInTry(Raised("Error", "wait_for_timeout", i))
    /\ UNCHANGED <<pw, browser, context, page, frame, elem, defaultTimeout,
                   steps, style, nAsserts, i, nFrames, verdict, out,
                   attached>>

(* the application opens pages only in reaction to a click, before the     *)
(* click returns                                                           *)
StepDelay == StepDelayOf(FALSE)

(* variant: the action is issued without awaiting it (a missing await) *)
StepIssueNoAwait ==
    /\ \/ pc = "step_act"
       \/ pc = "step" /\ steps[i] \notin LocatorKinds
    /\ log' = Append(log, Call(steps[i], i, "pending"))
    /\ Advance
    /\ UNCHANGED <<pw, browser, context, page, pages, frame, elem,
                   defaultTimeout, steps, style, nAsserts, nFrames, exc,
                   verdict, out, attached>>

(* variant: the per-call timeout of a navigation is written to the         *)
(* context's default timeout                                               *)
StepIssueSetsTimeout ==
    /\ \/ pc = "step_act"
       \/ pc = "step" /\ steps[i] \notin LocatorKinds
    /\ log' = Append(log, Call(steps[i], i, "pending"))
    /\ pc' = "step_wait"
    /\ defaultTimeout' = IF steps[i] = "goto" THEN 10000 ELSE defaultTimeout
    /\ UNCHANGED <<pw, browser, context, page, pages, frame, elem, steps,
                   style, nAsserts, i, nFrames, exc, verdict, out,
                   attached>>

(* the action of step i is issued and the coroutine suspends on it:        *)
(* await elem.click(timeout=5000) | await elem.fill(v) |                   *)
(* await page.goto(url, timeout=10000) | await page.mouse.wheel(0, dy)     *)
StepIssue ==
    /\ \/ pc = "step_act"
       \/ pc = "step" /\ steps[i] \notin LocatorKinds
    /\ log' = Append(log, Call(steps[i], i, "pending"))
    /\ pc' = "step_wait"
    /\ UNCHANGED <<pw, browser, context, page, pages, frame, elem,
                   defaultTimeout, steps, style, nAsserts, i, nFrames, exc,
                   verdict, out, attached>>

(* what a successful action of kind k may add to context.pages: a click   *)
(* may open a new tab or popup, which the context appends to its pages     *)
Opens(k) ==
    IF k = "click" /\ Idx(Top) < MaxPages
    THEN {<<>>, <<PageIds[Idx(Top) + 1]>>}
    ELSE {<<>>}

(* the page a successful action of kind k may close: a click may close the *)
(* page it was made on (window.close(), a flow that continues in the tab   *)
(* it opened) when another page stays open; None: no page is closed        *)
Shuts(k, opened, mayClose) ==
    IF mayClose /\ k = "click" /\ (Len(pages) > 1 \/ opened # <<>>)
    THEN {None, elem.on}
    ELSE {None}

(* the backend answers the action of step i                                *)
(* mayClose: the application may close a page in reaction to a click       *)
StepReturnOf(mayClose) ==
    /\ pc = "step_wait"
    /\ \E ok \in Answers(steps[i]) :
        IF ok
        THEN /\ log' = Returned("ok")
             /\ exc' = exc
             /\ \E opened \in Opens(steps[i]) :
                  \E shut \in Shuts(steps[i], opened, mayClose) :
                      pages' = Without(pages, shut) \o opened
             /\ IF steps[i] = "goto"
                THEN pc' = "step_sleep" /\ i' = i
                ELSE Advance
        ELSE /\ log' = Returned("err")
             /\ i' = i
             /\ pages' = pages
             /\ RaiseInTry(Raised("Error", steps[i], i))
    /\ UNCHANGED <<pw, browser, context, page, frame, elem, defaultTimeout,
                   steps, style, nAsserts, nFrames, verdict, out,
                   attached>>

(* the application under test keeps the first page open *)
StepReturn == StepReturnOf(FALSE)

(* await asyncio.sleep(3) after a mid-scenario page.goto *)
StepSleep ==
    /\ pc = "step_sleep"
    /\ Advance
    /\ UNCHANGED <<pw, browser, context, page, pages, frame, elem,
                   defaultTimeout, steps, style, nAsserts, nFrames, log,
                   exc, verdict, out, attached>>

(* ------------------------------ assertions ----------------------------- *)

(* frame = context.pages[-1] before the assertion batch; the batch that    *)
(* follows in the script is one of the two shapes and holds at least one   *)
(* expect (no statement before it depends on its shape or size)            *)
AssertFrame ==
    /\ pc = "assert_frame"
    /\ frame' = Top
    /\ style' \in AssertStyles
    /\ nAsserts' \in 1..MaxAsserts
    /\ i' = 1
    /\ pc' = "expect"
    /\ UNCHANGED <<pw, browser, context, page, pages, elem, defaultTimeout,
                   steps, nFrames, log, exc, verdict, out, attached>>

(* variant: the wrapped shape lets the AssertionError of expect() through  *)
UnmetUnwrapped(k) ==
    [type |-> "AssertionError", op |-> "expect", i |-> k, msg |-> "expect"]

(* the error that leaves assertion k when its expectation is unmet:        *)
(* expect() raises AssertionError; the wrapped shape catches it and raises *)
(* AssertionError("Test case failed: ...") instead                         *)
Unmet(k) ==
    [type |-> "AssertionError", op |-> "expect", i |-> k,
     msg |-> IF style = "wrapped" THEN "Test case failed" ELSE "expect"]

(* variant: the wrapped shape catches every exception (except Exception)  *)
(* and raises the scenario's message for a driver error as well            *)
ExpectErrorWrapped(k) ==
    IF style = "wrapped"
    THEN [type |-> "AssertionError", op |-> "expect", i |-> k,
          msg |-> "Test case failed"]
    ELSE Raised("Error", "expect", k)

(* the error that leaves assertion k when the driver raises while the      *)
(* expectation is evaluated: `except AssertionError` of the wrapped shape   *)
(* does not match an async_api.Error, which propagates as it is            *)
ExpectError(k) == Raised("Error", "expect", k)

(* variant: an unmet expectation is only recorded and evaluation goes on *)
ExpectSoft ==
    /\ pc = "expect"
    /\ \E res \in {"ok", "unmet", "err"} :
        /\ log' = Append(log, Call("expect", i, res))
        /\ IF res \in {"ok", "unmet"}
           THEN /\ i' = i + 1
                /\ pc' = IF i + 1 > nAsserts THEN "final_sleep" ELSE "expect"
                /\ exc' = IF res = "unmet" /\ exc = NoExc THEN Unmet(i) ELSE exc
           ELSE /\ i' = i
                /\ RaiseInTry(ExpectError(i))
    /\ UNCHANGED <<pw, browser, context, page, pages, frame, elem,
                   defaultTimeout, steps, style, nAsserts, nFrames,
                   verdict, out, attached>>

(* the page the application may close while the coroutine is suspended on  *)
(* an await, when another page stays open; None: no page is closed         *)
ShutsMeanwhile(mayShut) ==
    IF mayShut /\ Len(pages) > 1
    THEN {None} \cup {pages[k] : k \in 1..Len(pages)}
    ELSE {None}

(* the outcomes of an expectation: met, unmet within its timeout, or an    *)
(* error of the driver; on a closed page only the error                    *)
ExpectOutcomes ==
    IF Live(Target("expect")) THEN {"ok", "unmet", "err"} ELSE {"err"}

(* variant: each assertion reads context.pages[-1] again *)
ExpectRereads(mayChange) ==
    /\ pc = "expect"
    /\ \E opened \in OpensMeanwhile(mayChange) :
          \E shut \in ShutsMeanwhile(mayChange) :
              pages' = Without(pages, shut) \o opened
    /\ frame' = pages'[Len(pages')]
    /\ \E res \in ExpectOutcomes :
        /\ log' = Append(log, Call("expect", i, res))
        /\ IF res = "ok"
           THEN /\ i' = i + 1
                /\ pc' = IF i + 1 > nAsserts THEN "final_sleep" ELSE "expect"
                /\ exc' = exc
           ELSE /\ i' = i
                /\ RaiseInTry(IF res = "unmet" THEN Unmet(i)
                              ELSE ExpectError(i))
    /\ UNCHANGED <<pw, browser, context, page, elem, defaultTimeout, steps,
                   style, nAsserts, nFrames, verdict, out, attached>>

(* await expect(frame.locator('text=...').first).to_be_visible(timeout=T)  *)
(* mayChange: the application may open or close a page while the           *)
(* expectation is evaluated                                                *)
ExpectOf(mayChange) ==
    /\ pc = "expect"
    /\ \E opened \in OpensMeanwhile(mayChange) :
          \E shut \in ShutsMeanwhile(mayChange) :
              pages' = Without(pages, shut) \o opened
    /\ \E res \in ExpectOutcomes :
        /\ log' = Append(log, Call("expect", i, res))
        /\ IF res = "ok"
           THEN /\ i' = i + 1
                /\ pc' = IF i + 1 > nAsserts THEN "final_sleep" ELSE "expect"
                /\ exc' = exc
           ELSE /\ i' = i
                /\ RaiseInTry(IF res = "unmet" THEN Unmet(i)
                              ELSE ExpectError(i))
    /\ UNCHANGED <<pw, browser, context, page, frame, elem, defaultTimeout,
                   steps, style, nAsserts, nFrames, verdict, out,
                   attached>>

(* the set of open pages is stable while the assertions are evaluated *)
Expect == ExpectOf(FALSE)

(* await asyncio.sleep(5): the try body ends normally *)
FinalSleep ==
    /\ pc = "final_sleep"
    /\ pc' = "finally"
    /\ UNCHANGED <<pw, browser, context, page, pages, frame, elem,
                   defaultTimeout, steps, style, nAsserts, i, nFrames, log,
                   exc, verdict, out, attached>>

(* ------------------------------- teardown ------------------------------ *)

(* variant: the browser is closed before the context *)
FinallyOrderBrowserFirst == <<"fin_browser", "fin_context", "fin_pw", "exit">>

(* the statements of the finally block, in source order *)
FinallyOrder == <<"fin_context", "fin_browser", "fin_pw", "exit">>

AfterRelease(p) ==
    LET k == CHOOSE n \in 1..Len(FinallyOrder) : FinallyOrder[n] = p
    IN  FinallyOrder[k + 1]

(* control enters the finally block *)
EnterFinally ==
    /\ pc = "finally"
    /\ log' = Append(log, Call("finally", 0, "ok"))
    /\ pc' = FinallyOrder[1]
    /\ UNCHANGED <<pw, browser, context, page, pages, frame, elem,
                   defaultTimeout, steps, style, nAsserts, i, nFrames, exc,
                   verdict, out, attached>>

(* variant: an exception raised inside the finally block does not replace  *)
(* the exception that was propagating                                      *)
RaiseInFinallyKeepsFirst(e) ==
    /\ exc' = IF exc = NoExc THEN e ELSE exc
    /\ pc' = "exit"

(* an exception raised inside the finally block leaves run_test at once,   *)
(* replacing the exception that was propagating                            *)
RaiseInFinally(e) ==
    /\ exc' = e
    /\ pc' = "exit"

(* `if h: await h.close()` for handle h at position p; op is the call *)
Release(p, h, op) ==
    /\ pc = p
    /\ IF h # None
       THEN \E ok \in BOOLEAN :
              IF ok
              THEN /\ log' = Append(log, Call(op, 0, "ok"))
                   /\ pc' = AfterRelease(p)
                   /\ exc' = exc
              ELSE /\ log' = Append(log, Call(op, 0, "err"))
                   /\ RaiseInFinally(Raised("Error", op, 0))
       ELSE /\ pc' = AfterRelease(p)
            /\ UNCHANGED <<log, exc>>
    /\ UNCHANGED <<pw, browser, context, page, pages, frame, elem,
                   defaultTimeout, steps, style, nAsserts, i, nFrames,
                   verdict, out, attached>>

(* if context: await context.close() *)
CloseContext == Release("fin_context", context, "context.close")

(* if browser: await browser.close() *)
CloseBrowser == Release("fin_browser", browser, "browser.close")

(* if pw: await pw.stop() *)
StopDriver == Release("fin_pw", pw, "pw.stop")

(* variant: only an assertion failure fails the run *)
ExitOnlyAssertionsFail ==
    /\ pc = "exit"
    /\ verdict' = IF exc.type = "AssertionError" THEN "fail" ELSE "pass"
    /\ pc' = "done"
    /\ UNCHANGED <<pw, browser, context, page, pages, frame, elem,
                   defaultTimeout, steps, style, nAsserts, i, nFrames, log,
                   exc, out, attached>>

(* asyncio.run(run_test()): the run passes iff no exception leaves run_test *)
Exit ==
    /\ pc = "exit"
    /\ verdict' = IF exc = NoExc THEN "pass" ELSE "fail"
    /\ pc' = "done"
    /\ UNCHANGED <<pw, browser, context, page, pages, frame, elem,
                   defaultTimeout, steps, style, nAsserts, i, nFrames, log,
                   exc, out, attached>>

Next ==
    \/ StartDriver \/ LaunchBrowser \/ NewContext \/ SetDefaultTimeout
    \/ NewPage \/ InitialGoto \/ SettlePage \/ SettleFrame \/ SettleDone
    \/ StepResolve \/ StepDelay \/ StepIssue \/ StepReturn \/ StepSleep
    \/ AssertFrame \/ Expect \/ FinalSleep
    \/ EnterFinally \/ CloseContext \/ CloseBrowser \/ StopDriver \/ Exit

Spec == Init /\ [][Next]_vars

(* ---- the same run on pages that carry more frames and on which a  ----- *)
(* ---- locator may match nothing when it is built                   ----- *)

(* the settle wait on a page with up to MaxSettleFrames frames *)
SettlePageDeep == SettlePageOf(MaxSettleFrames)

(* a locator step on a page where the locator may match nothing *)
StepResolveDeep == StepResolveOf(BOOLEAN)

(* scenarios of one step: the settle wait runs before the first step and   *)
(* does not depend on the steps that follow                                *)
DeepInit == Init /\ Len(steps) = 1

DeepNext ==
    \/ StartDriver \/ LaunchBrowser \/ NewContext \/ SetDefaultTimeout
    \/ NewPage \/ InitialGoto \/ SettlePageDeep \/ SettleFrame \/ SettleDone
    \/ StepResolveDeep \/ StepDelay \/ StepIssue \/ StepReturn \/ StepSleep
    \/ AssertFrame \/ Expect \/ FinalSleep
    \/ EnterFinally \/ CloseContext \/ CloseBrowser \/ StopDriver \/ Exit

DeepSpec == DeepInit /\ [][DeepNext]_vars

(* ---- the same run on an application whose clicks may close a page ----- *)

StepReturnClosing == StepReturnOf(TRUE)

CloseNext ==
    \/ StartDriver \/ LaunchBrowser \/ NewContext \/ SetDefaultTimeout
    \/ NewPage \/ InitialGoto \/ SettlePage \/ SettleFrame \/ SettleDone
    \/ StepResolve \/ StepDelay \/ StepIssue \/ StepReturnClosing \/ StepSleep
    \/ AssertFrame \/ Expect \/ FinalSleep
    \/ EnterFinally \/ CloseContext \/ CloseBrowser \/ StopDriver \/ Exit

CloseSpec == Init /\ [][CloseNext]_vars

(* ---- the same run on a page that attaches and detaches frames during -- *)
(* ---- the settle wait                                                 -- *)

SettleFrameMeanwhile == SettleFrameOf(TRUE)

(* scenarios of one step: the settle wait runs before the first step *)
FrameInit == Init /\ Len(steps) = 1

FrameNext ==
    \/ StartDriver \/ LaunchBrowser \/ NewContext \/ SetDefaultTimeout
    \/ NewPage \/ InitialGoto \/ SettlePageDeep \/ SettleFrameMeanwhile
    \/ SettleDone
    \/ StepResolve \/ StepDelay \/ StepIssue \/ StepReturn \/ StepSleep
    \/ AssertFrame \/ Expect \/ FinalSleep
    \/ EnterFinally \/ CloseContext \/ CloseBrowser \/ StopDriver \/ Exit

FrameSpec == FrameInit /\ [][FrameNext]_vars

(* ---- the same run on an application that opens pages on its own ------- *)

StepDelayMeanwhile == StepDelayOf(TRUE)

AsyncNext ==
    \/ StartDriver \/ LaunchBrowser \/ NewContext \/ SetDefaultTimeout
    \/ NewPage \/ InitialGoto \/ SettlePage \/ SettleFrame \/ SettleDone
    \/ StepResolve \/ StepDelayMeanwhile \/ StepIssue \/ StepReturn
    \/ StepSleep \/ AssertFrame \/ Expect \/ FinalSleep
    \/ EnterFinally \/ CloseContext \/ CloseBrowser \/ StopDriver \/ Exit

AsyncSpec == Init /\ [][AsyncNext]_vars

(* ---- the same run on an application that opens or closes pages while -- *)
(* ---- the assertions are evaluated                                    -- *)

ExpectMeanwhile == ExpectOf(TRUE)

(* scenarios of one step: the assertion batch does not depend on the steps *)
(* before it, only on the pages they left open                             *)
AssertInit == Init /\ Len(steps) = 1

AssertNext ==
    \/ StartDriver \/ LaunchBrowser \/ NewContext \/ SetDefaultTimeout
    \/ NewPage \/ InitialGoto \/ SettlePage \/ SettleFrame \/ SettleDone
    \/ StepResolve \/ StepDelay \/ StepIssue \/ StepReturn \/ StepSleep
    \/ AssertFrame \/ ExpectMeanwhile \/ FinalSleep
    \/ EnterFinally \/ CloseContext \/ CloseBrowser \/ StopDriver \/ Exit

AssertSpec == AssertInit /\ [][AssertNext]_vars

(* ------------------------------ timeouts ------------------------------- *)

(* the awaited calls that are bounded in time by the source: an explicit   *)
(* timeout= argument (goto 10000, wait_for_load_state 3000, click 5000,    *)
(* expect 30000 or 1000), the fixed 3000 ms of wait_for_timeout, or the    *)
(* context default of 5000 ms (fill).  pw.start, launch, new_context,      *)
(* new_page, mouse.wheel, context.close, browser.close and pw.stop are     *)
(* awaited with no timeout.                                                *)
TimedOps ==
    {"goto", "wait_for_load_state", "wait_for_timeout", "click", "fill",
     "expect"}

(* the steps of the coroutine that are bound to happen when the backend    *)
(* honours timeouts: statements that do not wait on the backend, and       *)
(* awaits of a timed call (which return or raise TimeoutError)             *)
Answered ==
    \/ SetDefaultTimeout
    \/ InitialGoto \/ SettlePage \/ SettleFrame \/ SettleDone
    \/ StepResolve \/ StepDelay \/ StepIssue
    \/ (StepReturn /\ steps[i] \in TimedOps)
    \/ StepSleep \/ AssertFrame \/ Expect \/ FinalSleep
    \/ EnterFinally
    \/ (CloseContext /\ context = None)
    \/ (CloseBrowser /\ browser = None)
    \/ (StopDriver /\ pw = None)
    \/ Exit

(* run_test on a backend that honours every timeout it is given *)
LiveSpec == Spec /\ WF_vars(Answered)

(* ======================= properties of run_test ======================== *)

ReleaseOps == {"context.close", "browser.close", "pw.stop"}

AcquireOps ==
    {"pw.start", "launch", "new_context", "set_default_timeout", "new_page"}

IsRelease(c) == c.op \in ReleaseOps
IsAcquire(c) == c.op \in AcquireOps
IsMarker(c) == c.op = "finally"

(* navigation, settle wait, step or assertion *)
IsBody(c) == ~IsRelease(c) /\ ~IsAcquire(c) /\ ~IsMarker(c)

(* the action of a declared step *)
IsStepAct(c) == c.op \in StepKinds /\ c.i >= 1

(* any call made on behalf of a declared step: its settle delay or action *)
IsStepCall(c) == c.i >= 1 /\ c.op \in StepKinds \cup {"wait_for_timeout"}

IsExpect(c) == c.op = "expect"

Pos == 1..Len(log)

Issued(op) == \E n \in Pos : log[n].op = op
Succeeded(op) == \E n \in Pos : log[n].op = op /\ log[n].res = "ok"
Failed(op) == \E n \in Pos : log[n].op = op /\ log[n].res = "err"
Count(op) == Cardinality({n \in Pos : log[n].op = op})

InFinally == pc \in {"fin_context", "fin_browser", "fin_pw", "exit", "done"}

(* control is in the try body, or leaving it; the log is then the calls of *)
(* the body only, and it is final for the body once pc = "finally"         *)
InBody == ~InFinally

(* C1: whatever failed (or nothing), the finally block of run_test is      *)
(* entered exactly once, after the last body operation that was executed   *)
(* has returned; after that only release calls are issued.                 *)
C1_ReleaseEnteredOnce ==
    LET M == {n \in Pos : IsMarker(log[n])}
    IN  /\ Cardinality(M) <= 1
        /\ InFinally => M # {}
        /\ M = {} => \A n \in Pos : ~IsRelease(log[n])
        /\ \A m \in M :
             /\ \A a \in 1..(m - 1) :
                    ~IsRelease(log[a]) /\ log[a].res # "pending"
             /\ \A b \in (m + 1)..Len(log) : IsRelease(log[b])

(* a run whose second step failed has finished: the finally block was      *)
(* entered after that step and released all three handles                  *)
C1_Witness ==
    /\ pc = "done"
    /\ \E a \in Pos : IsStepAct(log[a]) /\ log[a].i = 2 /\ log[a].res = "err"
                      /\ IsMarker(log[a + 1])
    /\ Issued("pw.stop")

ReleaseRank(op) ==
    CASE op = "context.close" -> 1
      [] op = "browser.close" -> 2
      [] op = "pw.stop" -> 3

(* C2: the release calls that are issued occur in decreasing scope:        *)
(* context.close() before browser.close() before pw.stop(), wherever the   *)
(* failure was injected.                                                   *)
C2_ReleaseOrder ==
    LET R == {n \in Pos : IsRelease(log[n])}
    IN  \A a \in R, b \in R :
            a < b => ReleaseRank(log[a].op) < ReleaseRank(log[b].op)

(* all three release calls were issued in a run that failed at an          *)
(* assertion                                                               *)
C2_Witness ==
    /\ pc = "done"
    /\ \E a \in Pos : IsExpect(log[a]) /\ log[a].res = "unmet"
    /\ Issued("context.close") /\ Issued("browser.close") /\ Issued("pw.stop")

(* C3: each release step is independently guarded: when context.close()    *)
(* fails, browser.close() and pw.stop() are still attempted, and when      *)
(* browser.close() fails, pw.stop() is still attempted.                    *)
C3_ReleaseIndependentlyGuarded ==
    pc = "done" =>
        /\ Failed("context.close") =>
              /\ (browser # None => Issued("browser.close"))
              /\ (pw # None => Issued("pw.stop"))
        /\ Failed("browser.close") => (pw # None => Issued("pw.stop"))

Acquired(h) == h # None

(* C4: teardown is nil-safe: a release call is issued for a handle if and  *)
(* only if that handle was acquired; a handle that is still None produces  *)
(* no call, and the outer handles that were acquired are still released.   *)
C4_ReleasedIffAcquired ==
    pc = "done" =>
        /\ Issued("context.close") <=> Acquired(context)
        /\ Issued("browser.close") <=> Acquired(browser)
        /\ Issued("pw.stop") <=> Acquired(pw)

(* the acquisition call that failed, if any *)
AcquisitionFailed == \E n \in Pos : IsAcquire(log[n]) /\ log[n].res = "err"

(* the release call of the innermost handle that was acquired *)
InnermostRelease ==
    IF Acquired(context) THEN "context.close"
    ELSE IF Acquired(browser) THEN "browser.close"
    ELSE "pw.stop"

C6_StopOnceAndLast ==
    /\ \A op \in ReleaseOps : Count(op) <= 1
    /\ (pc = "done" /\ Acquired(pw)) =>
          /\ Count("pw.stop") = 1
          /\ log[Len(log)].op = "pw.stop"

(* the calls that must have succeeded before call c may be issued *)
Requires(c) ==
    CASE c.op = "launch" -> {"pw.start"}
      [] c.op = "new_context" -> {"launch"}
      [] c.op = "set_default_timeout" -> {"new_context"}
      [] c.op = "new_page" -> {"new_context", "set_default_timeout"}
      [] IsBody(c) -> {"new_page"}
      [] OTHER -> {}

(* C7: acquisition is strictly ordered session -> browser -> context ->    *)
(* page: the browser is launched only after the session started, the       *)
(* context is created only after the browser launched, the page is opened  *)
(* only after the context exists and its default timeout was set to 5000   *)
(* ms, and no body operation is issued before the page exists.             *)
C7_AcquisitionOrder ==
    /\ InBody =>
         \A b \in Pos :
             \A op1 \in Requires(log[b]) :
                 \E a \in 1..(b - 1) : log[a].op = op1 /\ log[a].res = "ok"
    /\ Issued("new_page") => defaultTimeout = 5000
    /\ (\E b \in Pos : IsBody(log[b])) => Acquired(page)
    /\ Acquired(browser) => Acquired(pw)
    /\ Acquired(context) => Acquired(browser)
    /\ Acquired(page) => Acquired(context) /\ defaultTimeout = 5000

(* the page was opened and a step action has been issued on it *)
C7_Witness ==
    /\ Acquired(page)
    /\ \E n \in Pos : IsStepAct(log[n])

(* the actions of declared steps issued so far, in issue order *)
StepActs == SelectSeq(log, IsStepAct)

(* C8: the step actions issued to the backend are a prefix of the declared *)
(* steps: in declaration order, each at most once, step k+1 only after     *)
(* step k returned successfully, and never two steps in flight.            *)
C8_StepsArePrefix ==
    LET acts == StepActs
    IN  /\ Len(acts) <= Len(steps)
        /\ \A k \in 1..Len(acts) :
             /\ acts[k].i = k
             /\ acts[k].op = steps[k]
             /\ k < Len(acts) => acts[k].res = "ok"
        /\ \A n \in Pos :
             log[n].res = "pending" => n = Len(log) /\ pc = "step_wait"

(* the second declared step is in flight after the first one returned *)
C8_Witness ==
    /\ Len(StepActs) = 2
    /\ StepActs[1].res = "ok"
    /\ StepActs[2].res = "pending"

(* every declared step completed without raising *)
AllStepsDone ==
    LET acts == StepActs
    IN  /\ Len(acts) >= Len(steps)
        /\ \A k \in 1..Len(steps) : acts[k].i = k /\ acts[k].res = "ok"

(* C9: the assertion phase is entered only after every declared step       *)
(* completed without raising; when step k fails (in its settle delay or    *)
(* its action) no later step and no assertion is ever issued, the run goes *)
(* directly to teardown and ends with a fail verdict.                      *)
C9_StepFailureAborts ==
    /\ pc \in {"assert_frame", "expect", "final_sleep"} => AllStepsDone
    /\ (\E n \in Pos : IsExpect(log[n])) => AllStepsDone
    /\ \A n \in Pos :
         (IsStepCall(log[n]) /\ log[n].res = "err") =>
            /\ \A m \in (n + 1)..Len(log) : IsMarker(log[m]) \/ IsRelease(log[m])
            /\ pc = "finally" \/ InFinally
            /\ pc = "done" => verdict = "fail"

(* the first of two declared steps failed and the run ended: verdict fail, *)
(* the session stopped                                                     *)
C9_Witness ==
    /\ pc = "done"
    /\ Len(steps) = 2
    /\ \E n \in Pos : IsStepAct(log[n]) /\ log[n].i = 1 /\ log[n].res = "err"
    /\ verdict = "fail"
    /\ Issued("pw.stop")

(* the assertions evaluated so far, in evaluation order *)
Expects == SelectSeq(log, IsExpect)

(* C10: assertions are evaluated in declared order and an unmet assertion  *)
(* aborts at once: no assertion after it is evaluated, teardown runs and   *)
(* the verdict is fail.                                                    *)
C10_HardAssertionAborts ==
    /\ LET ex == Expects
       IN  /\ Len(ex) <= nAsserts
           /\ \A k \in 1..Len(ex) :
                /\ ex[k].i = k
                /\ k < Len(ex) => ex[k].res = "ok"
    /\ \A n \in Pos :
         (IsExpect(log[n]) /\ log[n].res = "unmet") =>
            /\ \A m \in (n + 1)..Len(log) : IsMarker(log[m]) \/ IsRelease(log[m])
            /\ pc = "finally" \/ InFinally
            /\ exc # NoExc
            /\ pc = "done" => verdict = "fail" /\ Count("finally") = 1

(* the first of two declared assertions was unmet: the second was never    *)
(* evaluated, teardown ran, verdict fail                                   *)
C10_Witness ==
    /\ pc = "done"
    /\ nAsserts = 2
    /\ Len(Expects) = 1
    /\ Expects[1].res = "unmet"
    /\ Issued("context.close")
    /\ verdict = "fail"

IsSettle(c) == c.op = "wait_for_load_state"

(* a release call raised during teardown *)
ReleaseFailed == \E n \in Pos : IsRelease(log[n]) /\ log[n].res = "err"

C12_SettleNeverFails ==
    InBody =>
        \A n \in Pos :
            (IsSettle(log[n]) /\ log[n].res = "err") =>
                /\ n = Len(log) =>
                      /\ pc \in {"settle_frames", "step", "step_delay"}
                      /\ exc = NoExc
                /\ n < Len(log) =>
                      \/ IsSettle(log[n + 1]) /\ log[n + 1].i = log[n].i + 1
                      \/ IsStepCall(log[n + 1]) /\ log[n + 1].i = 1

(* the page wait and the frame wait both failed and the action of the      *)
(* first step was issued all the same                                      *)
C12_Witness ==
    /\ \E n \in Pos : IsSettle(log[n]) /\ log[n].i = 0 /\ log[n].res = "err"
    /\ \E n \in Pos : IsSettle(log[n]) /\ log[n].i = 1 /\ log[n].res = "err"
    /\ \E n \in Pos : IsStepAct(log[n]) /\ log[n].i = 1 /\ log[n].res = "ok"
    /\ exc = NoExc

(* a call of the try body other than a settle wait failed *)
BodyFailed ==
    \E n \in Pos :
        /\ ~IsSettle(log[n]) /\ ~IsRelease(log[n])
        /\ log[n].res \in {"err", "unmet"}

FirstFailure ==
    CHOOSE n \in Pos :
        /\ ~IsSettle(log[n]) /\ log[n].res \in {"err", "unmet"}
        /\ \A m \in 1..(n - 1) :
              IsSettle(log[m]) \/ log[m].res \notin {"err", "unmet"}

(* a step (its settle delay or action) or an assertion failed *)
StepOrAssertionFailed ==
    \E n \in Pos :
        /\ (IsStepCall(log[n]) \/ IsExpect(log[n]))
        /\ log[n].res \in {"err", "unmet"}

(* C14: a failed scenario reports one message and that message names the   *)
(* first hard failure of the run (the failing step, or the first unmet     *)
(* assertion), also when a later operation, a release call of the teardown *)
(* included, fails as well.                                                *)
C14_MessageNamesFirstFailure ==
    (pc = "done" /\ StepOrAssertionFailed) =>
        /\ verdict = "fail"
        /\ exc.op = log[FirstFailure].op
        /\ exc.i = log[FirstFailure].i

(* C15: when an assertion is unmet, the error raised by the assertion      *)
(* phase is an AssertionError describing that assertion (the message of    *)
(* expect() in the direct shape, the scenario's message in the wrapped     *)
(* shape), and the fail verdict carries the description of the first unmet *)
(* assertion.                                                              *)
C15_VerdictCarriesUnmetAssertion ==
    \A n \in Pos :
        (IsExpect(log[n]) /\ log[n].res = "unmet") =>
            /\ pc = "finally" => exc = Unmet(log[n].i)
            /\ pc = "done" => verdict = "fail" /\ exc = Unmet(log[n].i)

(* C16: every suspension point carries its own timeout, so on a backend    *)
(* that honours timeouts every run eventually completes teardown and       *)
(* terminates with a verdict.                                              *)
C16_RunTerminates == <>(pc = "done" /\ verdict \in {"pass", "fail"})

(* the calls of locator steps: elem.click, elem.fill *)
IsLocatorCall(c) == c.i >= 1 /\ c.op \in LocatorKinds

(* C18: every locator step and the assertion batch build their locator on  *)
(* context.pages[-1] as it is when the locator is built: the click or fill *)
(* of a step is addressed to the page that was last in context.pages when  *)
(* the step began (no await lies between `frame = context.pages[-1]` and   *)
(* the issue of the step's wait_for_timeout), and every expect to the last *)
(* page of the context.                                                    *)
C18_LocatorsTargetLatestPage ==
    InBody =>
        \A n \in Pos :
            /\ IsLocatorCall(log[n]) =>
                /\ n > 1
                /\ log[n - 1].op = "wait_for_timeout"
                /\ log[n - 1].i = log[n].i
                /\ log[n].tgt = log[n - 1].top
            /\ IsExpect(log[n]) => log[n].tgt = log[n].top

(* a locator step acted on a page that an earlier click had opened *)
C18_Witness ==
    \E n \in Pos :
        /\ IsLocatorCall(log[n])
        /\ log[n].res = "ok"
        /\ log[n].tgt = PageIds[2]

(* C19: the current-page reference is never cached: every call made on a  *)
(* page (page.goto, page.mouse.wheel, page.wait_for_timeout) is addressed  *)
(* to context.pages[-1] as it is when the call is issued.                  *)
C19_PageCallsTargetLatestPage ==
    \A n \in Pos :
        (log[n].i >= 1 /\ log[n].op \in PageOps) => log[n].tgt = log[n].top

IsGoto(c) == c.op = "goto"

(* C20 as stated: every navigation, initial or mid-scenario, waits only    *)
(* for the commit milestone and is followed by the settle waits.           *)
C20_EveryGotoCommitsThenSettles ==
    \A n \in Pos :
        (IsGoto(log[n]) /\ log[n].res = "ok") =>
            /\ log[n].until = "commit"
            /\ n < Len(log) => log[n + 1].op = "wait_for_load_state"

(* C20, amended: the initial navigation waits for commit and, when it      *)
(* succeeds, is followed by the settle wait on the page; a mid-scenario    *)
(* navigation waits for the load event, is never followed by a settle      *)
(* wait, and when it succeeds the run sleeps before the next step, issuing *)
(* no call meanwhile.                                                      *)
C20_GotoMilestones ==
    /\ [](\A n \in Pos :
            IsGoto(log[n]) =>
                IF log[n].i = 0
                THEN /\ log[n].until = "commit"
                     /\ log[n].res = "ok" =>
                          IF n = Len(log) THEN pc = "settle_page"
                          ELSE /\ log[n + 1].op = "wait_for_load_state"
                               /\ log[n + 1].i = 0
                ELSE /\ log[n].until = "load"
                     /\ n < Len(log) => log[n + 1].op # "wait_for_load_state")
    /\ [][(/\ pc = "step_wait"
           /\ steps[i] = "goto"
           /\ log'[Len(log')].res = "ok") => pc' = "step_sleep"]_vars
    /\ [][pc = "step_sleep" => (log' = log /\ i' = NextStep(i))]_vars

(* a mid-scenario navigation succeeded and the next step was issued *)
C20_Witness ==
    \E n \in Pos :
        /\ IsGoto(log[n])
        /\ log[n].i >= 1
        /\ log[n].res = "ok"
        /\ n < Len(log)
        /\ log[n + 1].i = log[n].i + 1
        /\ IsStepCall(log[n + 1])

IsDelay(c) == c.op = "wait_for_timeout"

(* the settle delay of the step of call c completed just before c *)
DelayedBefore(n) ==
    /\ n > 1
    /\ IsDelay(log[n - 1])
    /\ log[n - 1].i = log[n].i
    /\ log[n - 1].res = "ok"

(* C21 as stated: the action of every step, of whatever kind, is issued    *)
(* only after that step's 3000 ms settle delay has completed.              *)
C21_EveryStepDelayed ==
    \A n \in Pos : IsStepAct(log[n]) => DelayedBefore(n)

(* C21, amended: a click or fill is issued only right after its step's     *)
(* settle delay has completed, and is not issued at all when the delay     *)
(* fails (the body is left at once); a navigate or scroll step has no      *)
(* locator and no settle delay, its action is issued directly.             *)
C21_LocatorStepsDelayed ==
    InBody =>
        \A n \in Pos :
            /\ IsStepAct(log[n]) =>
                  (log[n].op \in LocatorKinds <=> DelayedBefore(n))
            /\ IsDelay(log[n]) =>
                  /\ steps[log[n].i] \in LocatorKinds
                  /\ log[n].res = "err" => n = Len(log) /\ pc = "finally"
                  /\ (log[n].res = "ok" /\ n < Len(log)) =>
                        /\ log[n + 1].op = steps[log[n].i]
                        /\ log[n + 1].i = log[n].i

(* the first step acted after its settle delay, the settle delay of the    *)
(* second step failed and the body was left without issuing its action     *)
C21_Witness ==
    /\ pc = "finally"
    /\ \E n \in Pos : IsLocatorCall(log[n]) /\ log[n].i = 1 /\ DelayedBefore(n)
    /\ IsDelay(log[Len(log)])
    /\ log[Len(log)].i = 2
    /\ log[Len(log)].res = "err"

(* the phase of the run at position p of run_test, as a rank:              *)
(* 0 Idle, 1 Acquiring (session, browser, context, page, first navigation  *)
(* and its settle wait), 2 Executing, 3 Asserting, 4 Verdict (the try body *)
(* is over, with or without an exception), 5 TornDown (finally block and   *)
(* return to asyncio.run)                                                  *)
PhaseRank(p) ==
    CASE p = "start" -> 0
      [] p \in {"launch", "new_context", "set_default_timeout", "new_page",
                "goto", "settle_page", "settle_frames"} -> 1
      [] p \in {"step", "step_delay", "step_act", "step_wait",
                "step_sleep"} -> 2
      [] p \in {"assert_frame", "expect", "final_sleep"} -> 3
      [] p = "finally" -> 4
      [] OTHER -> 5

(* number of calls of the ops S issued on behalf of step / assertion k *)
Attempts(S, k) == Cardinality({n \in Pos : log[n].op \in S /\ log[n].i = k})

(* C22: the run moves through Idle, Acquiring, Executing(1..N), Asserting, *)
(* Verdict, TornDown without ever going back; inside Executing and inside  *)
(* Asserting the index never decreases; every settle delay, step action    *)
(* and assertion is attempted at most once, failed or not.                 *)
C22_PhasesMonotone ==
    /\ [][PhaseRank(pc') >= PhaseRank(pc)]_vars
    /\ [][(PhaseRank(pc) = 2 /\ PhaseRank(pc') = 2) => i' >= i]_vars
    /\ [][(pc = "expect" /\ PhaseRank(pc') = 3) => i' >= i]_vars
    /\ [](InBody =>
            /\ \A k \in 1..Len(steps) :
                 /\ Attempts(StepKinds, k) <= 1
                 /\ Attempts({"wait_for_timeout"}, k) <= 1
            /\ \A k \in 1..nAsserts : Attempts({"expect"}, k) <= 1)

(* a run went through every phase: two steps, two assertions, teardown,    *)
(* and another one stopped at a failed step that was attempted once        *)
C22_Witness ==
    /\ pc = "done"
    /\ Len(steps) = 2
    /\ \/ /\ verdict = "pass"
          /\ nAsserts = 2
          /\ Attempts({"expect"}, 2) = 1
       \/ /\ verdict = "fail"
          /\ \E n \in Pos : IsStepAct(log[n]) /\ log[n].i = 2
                            /\ log[n].res = "err"
          /\ Attempts(StepKinds, 2) = 1

(* the settle waits issued so far, in issue order *)
Settles == SelectSeq(log, IsSettle)

(* C23: the settle wait waits on the page first (index 0) and then on each *)
(* frame of the page.frames list read when the loop starts, one at a time  *)
(* in list order (1, 2, ...); whatever the outcome of each wait, once the  *)
(* first step is reached every frame of that list has been waited on.      *)
C23_SettleWaitsEveryFrame ==
    InBody =>
        LET w == Settles
        IN  /\ Len(w) <= nFrames + 1
            /\ \A k \in 1..Len(w) : w[k].i = k - 1
            /\ \A n \in Pos :
                 (IsSettle(log[n]) /\ log[n].i >= 1) => IsSettle(log[n - 1])
            /\ pc = "settle_frames" => Len(w) = i
            /\ PhaseRank(pc) \in {2, 3} => Len(w) = nFrames + 1

(* the wait on the first of two frames failed; the second frame was waited *)
(* on all the same and the first step was reached                          *)
C23_Witness ==
    /\ nFrames = 2
    /\ pc = "step"
    /\ \E n \in Pos : IsSettle(log[n]) /\ log[n].i = 1 /\ log[n].res = "err"
    /\ \E n \in Pos : IsSettle(log[n]) /\ log[n].i = 2

(* C24: locators are not kept from one step to the next: the click or fill *)
(* of step k is made on the locator built by step k itself, on the page    *)
(* that was context.pages[-1] when step k began, whatever locator an       *)
(* earlier step built; a locator is built only when its step is reached.   *)
C24_LocatorsResolvedPerStep ==
    /\ [](InBody =>
            \A n \in Pos :
                IsLocatorCall(log[n]) =>
                    /\ log[n].loc.by = log[n].i
                    /\ log[n].loc.on = log[n - 1].top
                    /\ log[n].tgt = log[n].loc.on)
    /\ [][elem' # elem =>
            /\ pc = "step"
            /\ elem'.by = i
            /\ elem'.on = Top]_vars

(* the second of two locator steps acted on the locator it built itself,   *)
(* on the page that the first step's click had opened                      *)
C24_Witness ==
    \E n \in Pos :
        /\ IsLocatorCall(log[n])
        /\ log[n].i = 2
        /\ log[n].res = "ok"
        /\ log[n].loc.by = 2
        /\ log[n].loc.on = PageIds[2]
        /\ \E m \in 1..(n - 1) : IsLocatorCall(log[m]) /\ log[m].loc.by = 1

(* C25: building a locator never fails and issues no call, also when no    *)
(* element matches it at that moment; for such a step the settle delay is  *)
(* still issued, the action is issued after it, and a failure of the step  *)
(* is the failure of its settle delay or of its action.                    *)
C25_ResolutionNeverFails ==
    /\ [][(pc = "step" /\ steps[i] \in LocatorKinds) =>
            /\ pc' = "step_delay"
            /\ exc' = exc
            /\ log' = log]_vars
    /\ [](InBody =>
            \A n \in Pos :
                (IsLocatorCall(log[n]) /\ ~log[n].loc.hit) =>
                    /\ DelayedBefore(n)
                    /\ log[n].res = "err" =>
                          /\ pc = "finally"
                          /\ exc = Raised("Error", log[n].op, log[n].i))
    /\ [](exc.op # "locator")

(* a click whose locator matched nothing when it was built was issued      *)
(* after its settle delay and failed                                       *)
C25_Witness ==
    /\ pc = "finally"
    /\ IsLocatorCall(log[Len(log)])
    /\ ~log[Len(log)].loc.hit
    /\ DelayedBefore(Len(log))
    /\ log[Len(log)].res = "err"

(* C26: new_context is called at most once in a run and before every       *)
(* navigation, step and assertion; the context handle is bound by that     *)
(* call only and is never rebound, so at most one context exists, also     *)
(* after a step has opened a page or a navigation was made.                *)
C26_AtMostOneContext ==
    /\ [](Count("new_context") <= 1)
    /\ [](context # None <=> Succeeded("new_context"))
    /\ [](\A n \in Pos : log[n].op = "new_context" =>
              \A m \in 1..(n-1) : IsAcquire(log[m]))
    /\ [][context' # context =>
              /\ pc = "new_context"
              /\ context = None
              /\ pages = << >>]_vars

(* a step has opened a second page and a mid-scenario navigation was made, *)
(* and the run still has the one context of its acquisition                *)
C26_Witness ==
    /\ Len(pages) > 1
    /\ \E n \in Pos : log[n].op = "goto" /\ log[n].i >= 1
    /\ context # None
    /\ Count("new_context") = 1

(* C27: the default timeout is written by set_default_timeout only, which  *)
(* is called at most once, directly after new_context succeeded and before *)
(* new_page; from new_page on it is 5000 ms, and no navigation, settle     *)
(* wait, step, assertion or release changes it.                            *)
C27_DefaultTimeoutSetOnce ==
    /\ [](Count("set_default_timeout") <= 1)
    /\ [](defaultTimeout = DefaultTimeoutMs <=>
              Succeeded("set_default_timeout"))
    /\ [](defaultTimeout # DefaultTimeoutMs => defaultTimeout = NoTimeout)
    /\ [](\A n \in Pos :
            /\ log[n].op = "set_default_timeout" =>
                  /\ n > 1
                  /\ log[n-1].op = "new_context"
                  /\ log[n-1].res = "ok"
            /\ log[n].op = "new_page" =>
                  /\ log[n-1].op = "set_default_timeout"
                  /\ defaultTimeout = DefaultTimeoutMs)
    /\ [][defaultTimeout' # defaultTimeout =>
              /\ pc = "set_default_timeout"
              /\ defaultTimeout = NoTimeout
              /\ defaultTimeout' = DefaultTimeoutMs]_vars
    /\ [][(defaultTimeout = DefaultTimeoutMs) =>
              (defaultTimeout' = DefaultTimeoutMs)]_vars

(* the run is over after a mid-scenario navigation, an assertion and the   *)
(* release of the context, and the default timeout is the one set at       *)
(* acquisition                                                             *)
C27_Witness ==
    /\ pc = "done"
    /\ defaultTimeout = DefaultTimeoutMs
    /\ Count("set_default_timeout") = 1
    /\ \E n \in Pos : log[n].op = "goto" /\ log[n].i >= 1
    /\ Issued("expect")
    /\ Succeeded("context.close")

(* C28: every swallowed settle-wait failure is logged: the script has      *)
(* written as many records as settle waits have failed. (Violated: the     *)
(* except clauses of the settle waits are `pass`, and nothing is written.) *)
C28_SettleFailuresLogged ==
    Len(out) = Cardinality({n \in Pos : IsSettle(log[n]) /\ log[n].res = "err"})

(* C29: a release call that raises is the last call of the run, and the    *)
(* error that leaves run_test is then the error of that release call: the  *)
(* run is reported as failed, whether the body had succeeded or had failed *)
(* with an error of its own.                                               *)
C29_ReleaseErrorIsTheOutcome ==
    pc \in {"exit", "done"} =>
        \A n \in Pos :
            (IsRelease(log[n]) /\ log[n].res = "err") =>
                /\ n = Len(log)
                /\ exc = Raised("Error", log[n].op, 0)
                /\ pc = "done" => verdict = "fail"

(* a run whose step had failed ended with the error of context.close()    *)
C29_Witness ==
    /\ pc = "done"
    /\ StepOrAssertionFailed
    /\ log[Len(log)].op = "context.close"
    /\ log[Len(log)].res = "err"
    /\ exc.op = "context.close"
    /\ verdict = "fail"

(* C30: `page` is bound once, by context.new_page(), to the first page and *)
(* is never rebound: every settle wait, settle delay, scroll and           *)
(* navigation is addressed to that page; once that page is closed it stays *)
(* closed, and every locator step from then on fails at its settle delay   *)
(* and its action is never issued, also when its locator was built on a    *)
(* page that is open.                                                      *)
C30_PageBoundOnce ==
    /\ [][page' # page =>
              /\ pc = "new_page"
              /\ page = None
              /\ page' = PageIds[1]]_vars
    /\ [](InBody => \A n \in Pos :
              log[n].op \in PageOps => log[n].tgt = PageIds[1])
    /\ [][(page # None /\ ~Live(page)) => (~Live(page))']_vars
    /\ [][(pc = "step_delay" /\ ~Live(page)) =>
              /\ pc' = "finally"
              /\ Len(log') = Len(log) + 1
              /\ log'[Len(log')].op = "wait_for_timeout"
              /\ log'[Len(log')].i = i
              /\ log'[Len(log')].res = "err"
              /\ exc' = Raised("Error", "wait_for_timeout", i)]_vars
    /\ []((\/ pc = "step_act"
           \/ pc = "step_wait" /\ steps[i] \in LocatorKinds) => Live(page))

(* the click of step 1 closed the first page and left a newer page open;   *)
(* step 2 built its locator on the open page and failed at its settle      *)
(* delay                                                                   *)
C30_Witness ==
    /\ pc = "finally"
    /\ page # None /\ ~Live(page)
    /\ frame # page /\ Live(frame)
    /\ elem.by = 2 /\ elem.on = frame
    /\ log[Len(log)].op = "wait_for_timeout"
    /\ log[Len(log)].i = 2
    /\ log[Len(log)].res = "err"
    /\ log[Len(log) - 1].op = "click"
    /\ log[Len(log) - 1].res = "ok"

(* C31: the page a locator step acts on is fixed when its locator is built, *)
(* before the settle delay: the delay and the issue of the action leave     *)
(* frame and elem alone, so the click or fill is addressed to the page that *)
(* was last in context.pages when the step began, also when a page was      *)
(* opened during the delay; the locator of the next step is built on        *)
(* context.pages[-1] as it is then.                                         *)
C31_TargetFixedAtResolution ==
    /\ [][(pc = "step_delay" \/ pc = "step_act") =>
              /\ frame' = frame
              /\ elem' = elem]_vars
    /\ [][(pc = "step" /\ steps[i] \in LocatorKinds) =>
              /\ frame' = Top
              /\ elem'.on = Top
              /\ pages' = pages]_vars
    /\ [](InBody => \A n \in Pos :
              IsLocatorCall(log[n]) =>
                  /\ log[n].tgt = log[n].loc.on
                  /\ log[n].loc.by = log[n].i
                  /\ log[n - 1].op = "wait_for_timeout"
                  /\ log[n].tgt = log[n - 1].top
                  /\ Idx(log[n].tgt) <= Idx(log[n].top))

(* a page was opened during the settle delay of step 1: the click of step  *)
(* 1 was made on the first page although page2 was the last page when it   *)
(* was issued, and the locator call of step 2 is addressed to page2        *)
C31_Witness ==
    \E n \in Pos : \E m \in Pos :
        /\ IsLocatorCall(log[n]) /\ log[n].i = 1
        /\ log[n - 1].top = PageIds[1]
        /\ log[n].top = PageIds[2]
        /\ log[n].tgt = PageIds[1]
        /\ log[n].res = "ok"
        /\ IsLocatorCall(log[m]) /\ log[m].i = 2
        /\ log[m].tgt = PageIds[2]

(* C32: the page of the assertion batch is read once, when the assertion   *)
(* phase starts: evaluating an assertion leaves frame alone, so every      *)
(* expect of the batch is addressed to the page that was last in           *)
(* context.pages when the first one was issued, also when a page was       *)
(* opened or closed in between.                                            *)
C32_AssertionPageReadOnce ==
    /\ [][pc = "assert_frame" => (frame' = Top /\ pages' = pages)]_vars
    /\ [][pc = "expect" => frame' = frame]_vars
    /\ [](InBody => \A n \in Pos :
              IsExpect(log[n]) =>
                  /\ log[n].tgt = log[n - log[n].i + 1].top
                  /\ IsExpect(log[n - log[n].i + 1])
                  /\ log[n].loc.on = log[n].tgt
                  /\ pc \in {"expect", "final_sleep", "finally"} =>
                        log[n].tgt = frame)

(* a page was opened while assertion 1 was evaluated: assertion 2 is still *)
(* addressed to the page read when the batch started                       *)
C32_Witness ==
    \E n \in Pos :
        /\ IsExpect(log[n]) /\ log[n].i = 2
        /\ IsExpect(log[n - 1]) /\ log[n - 1].res = "ok"
        /\ log[n - 1].top = log[n - 1].tgt
        /\ log[n].top # log[n].tgt
        /\ Idx(log[n].top) > Idx(log[n].tgt)
        /\ log[n].tgt = log[n - 1].tgt

(* C33: the loop of the settle wait runs over the list of frames read once *)
(* after the wait on the page: a frame attached later is never waited on,  *)
(* a frame of the list that is detached when its turn comes is waited on   *)
(* all the same and its failure is swallowed, and once the first step is   *)
(* reached the run has made 1 + (size of the list) settle waits, the main  *)
(* frame (frame 1) having been waited on after the page itself.            *)
C33_SettleOverSnapshot ==
    /\ [][nFrames' # nFrames => (pc = "settle_page" /\ nFrames' >= 1)]_vars
    /\ [][(pc = "settle_frames" /\ i <= nFrames /\ i \notin attached) =>
              /\ pc' = "settle_frames"
              /\ i' = i + 1
              /\ exc' = exc
              /\ log' = Append(log,
                               Call("wait_for_load_state", i, "err"))]_vars
    /\ [](InBody => \A n \in Pos :
              IsSettle(log[n]) => log[n].i \in 0..nFrames)
    /\ [](InBody => \A k \in 0..nFrames :
              LET c == Cardinality({n \in Pos :
                                      IsSettle(log[n]) /\ log[n].i = k})
              IN  /\ c <= 1
                  /\ PhaseRank(pc) \in {2, 3} => c = 1)

(* the list held two frames; frame 2 was detached and frame 3 attached     *)
(* before the loop ended: the wait on frame 2 was made and failed, frame 3 *)
(* was not waited on, and the first step was reached after three waits     *)
C33_Witness ==
    /\ pc = "step"
    /\ nFrames = 2
    /\ attached = {1, 3}
    /\ Len(Settles) = 3
    /\ \E n \in Pos : IsSettle(log[n]) /\ log[n].i = 2 /\ log[n].res = "err"
    /\ \E n \in Pos : IsSettle(log[n]) /\ log[n].i = 1

(* C34: in the wrapped shape only an unmet expectation is replaced by the  *)
(* scenario's "Test case failed" AssertionError; a driver error raised by  *)
(* the expectation leaves the try body as it is; either way the body ends  *)
(* there (the final sleep is reached only after every assertion was met)   *)
(* and the finally block is entered and releases the context.              *)
C34_OnlyUnmetIsReworded ==
    /\ [][(pc = "expect" /\ style = "wrapped") =>
              LET c == log'[Len(log')]
              IN  /\ Len(log') = Len(log) + 1
                  /\ IsExpect(c) /\ c.i = i
                  /\ c.res = "ok" =>
                        /\ exc' = exc
                        /\ pc' \in {"expect", "final_sleep"}
                  /\ c.res = "unmet" =>
                        /\ pc' = "finally"
                        /\ exc'.type = "AssertionError"
                        /\ exc'.msg = "Test case failed"
                        /\ exc'.i = i
                  /\ c.res = "err" =>
                        /\ pc' = "finally"
                        /\ exc'.type = "Error"
                        /\ exc'.op = "expect"
                        /\ exc'.msg = "expect"
                        /\ exc'.i = i]_vars
    /\ [](pc = "final_sleep" =>
              /\ exc = NoExc
              /\ Len(Expects) = nAsserts
              /\ \A k \in 1..nAsserts : Expects[k].res = "ok")
    /\ []((/\ pc \in {"exit", "done"}
           /\ style = "wrapped"
           /\ \E n \in Pos : IsExpect(log[n]) /\ log[n].res # "ok") =>
              /\ Issued("finally")
              /\ Issued("context.close")
              /\ pc = "done" => verdict = "fail")

(* a wrapped expectation raised a driver error: the error left the body    *)
(* unchanged, and the context, the browser and the driver were released    *)
C34_Witness ==
    /\ pc = "done"
    /\ style = "wrapped"
    /\ \E n \in Pos : IsExpect(log[n]) /\ log[n].res = "err"
    /\ exc = Raised("Error", "expect", 1)
    /\ Succeeded("context.close")
    /\ Succeeded("pw.stop")
    /\ verdict = "fail"

====
